---- MODULE Spec2Model ----
(***************************************************************************)
(* WALEMCP: the WALE token supply controller (contracts/token) and the MCP *)
(* template / execution registry (contracts/mcp), two Anchor programs.     *)
(*                                                                         *)
(* Every instruction is one transaction: Anchor first validates the        *)
(* accounts struct (#[derive(Accounts)]: init, constraint = ...), then     *)
(* runs the handler on the deserialized accounts, then writes them back.   *)
(* A handler that returns Err aborts the transaction: nothing it wrote,    *)
(* in its own accounts or through a cross-program call, is kept.           *)
(***************************************************************************)
EXTENDS Integers, Sequences, FiniteSets, TLC

VARIABLES
    token_info,   \* the TokenInfo account of the one mint modelled
    balances,     \* external token ledger: amount held by each key's token account
    templates,    \* TemplateAccount per derived address
    executions,   \* ExecutionAccount per derived address
    now,          \* Clock::get()?.unix_timestamp
    last,         \* the last token instruction processed: its name, arguments and result
    ledger_log    \* the external ledger's own account of what it committed for the
                  \* controller: the amounts of its mint_to and of its burn calls

vars == <<token_info, balances, templates, executions, now, last, ledger_log>>

----------------------------------------------------------------------------
(* Bounds of the model *)

\* identities (Pubkey) are 1..NumKeys
NumKeys == 2
\* u64::MAX, scaled down so that checked_add / checked_sub reach their limits
U64_MAX == 3
\* largest amount each token account may hold before initialize_token runs
PreSupply == 1
\* timestamps are 1..MaxTime
MaxTime == 2

Keys == 1..NumKeys
Amounts == {0, 1, U64_MAX - 1, U64_MAX}

\* an address that holds no account of the program
NoAccount == [discriminator |-> "none"]
NoEvent == [event |-> "none"]

----------------------------------------------------------------------------
(* The external token ledger (SPL token program), reached by CPI *)

RECURSIVE SumOver(_, _)
SumOver(f, S) ==
    IF S = {} THEN 0
    ELSE LET k == CHOOSE x \in S : TRUE IN f[k] + SumOver(f, S \ {k})

\* Mint.supply
LedgerSupply(bal) == SumOver(bal, DOMAIN bal)

\* token::mint_to: `accepted` is the ledger's own verdict on the accounts it is
\* handed (mint authority, account/mint match); supply is checked for overflow.
mint_to(bal, destination, amount, accepted) ==
    IF accepted /\ LedgerSupply(bal) + amount <= U64_MAX
    THEN [ok |-> TRUE, bal |-> [bal EXCEPT ![destination] = @ + amount]]
    ELSE [ok |-> FALSE, bal |-> bal]

\* token::burn: fails on insufficient funds in the source account.
burn(bal, source, amount, accepted) ==
    IF accepted /\ bal[source] >= amount
    THEN [ok |-> TRUE, bal |-> [bal EXCEPT ![source] = @ - amount]]
    ELSE [ok |-> FALSE, bal |-> bal]

----------------------------------------------------------------------------
(* Transactions *)

\* (mutant) a failed transaction keeps what the ledger did during the CPI
TxOutcome_keeps_cpi(pre, res) ==
    IF res.err = "Ok" THEN res.post ELSE [pre EXCEPT !.bal = res.post.bal]

\* (mutant) a failed transaction keeps what the handler wrote before it failed
TxOutcome_keeps_writes(pre, res) == res.post

\* What a transaction leaves behind: the handler's writes when it returned Ok,
\* the state before it otherwise.
TxOutcome(pre, res) == IF res.err = "Ok" THEN res.post ELSE pre

----------------------------------------------------------------------------
(* contracts/token/wale_token.rs *)

\* strings are modelled by their length in bytes
MAX_NAME_LEN == 50
MAX_SYMBOL_LEN == 10
MAX_URI_LEN == 200

NameInputs == {MAX_NAME_LEN, MAX_NAME_LEN + 1}
SymbolInputs == {MAX_SYMBOL_LEN}
UriInputs == {MAX_URI_LEN}

\* TokenInfo::space()
TokenInfo_space ==
    LET fixed_size == 8 + 1 + 32 + 32 + 8 + 8 + 8 + 1
        variable_size == 4 + MAX_NAME_LEN + 4 + MAX_SYMBOL_LEN + 4 + MAX_URI_LEN
    IN fixed_size + variable_size

\* bytes of a TokenInfo account as serialized: the discriminator, then the
\* fields in declaration order, each String as a 4-byte length and its bytes
TokenInfo_size(ti) ==
    8 + (4 + ti.name) + (4 + ti.symbol) + (4 + ti.uri)
      + 1 + 32 + 32 + 8 + 8 + 8 + 1

\* (mutant) initialize_token that re-initializes an existing account
initialize_token_if_needed(st, authority, name, symbol, uri, decimals, clock) ==
    LET info == [discriminator |-> "TokenInfo",
                 name |-> name, symbol |-> symbol, uri |-> uri,
                 decimals |-> decimals, authority |-> authority, mint |-> "mint",
                 created_at |-> clock, total_supply |-> 0,
                 circulating_supply |-> 0, is_frozen |-> FALSE]
    IN IF TokenInfo_size(info) > TokenInfo_space
       THEN [err |-> "AccountDidNotSerialize", post |-> st, event |-> NoEvent]
       ELSE [err |-> "Ok", post |-> [st EXCEPT !.ti = info], event |-> NoEvent]

\* initialize_token(name, symbol, uri, decimals), signed by `authority`
initialize_token(st, authority, name, symbol, uri, decimals, clock) ==
    IF st.ti # NoAccount
    THEN [err |-> "AccountAlreadyInUse", post |-> st, event |-> NoEvent]
    ELSE
        LET info == [discriminator |-> "TokenInfo",
                     name |-> name,
                     symbol |-> symbol,
                     uri |-> uri,
                     decimals |-> decimals,
                     authority |-> authority,
                     mint |-> "mint",
                     created_at |-> clock,
                     total_supply |-> 0,
                     circulating_supply |-> 0,
                     is_frozen |-> FALSE]
        IN IF TokenInfo_size(info) > TokenInfo_space
           THEN [err |-> "AccountDidNotSerialize",
                 post |-> [st EXCEPT !.ti = info], event |-> NoEvent]
           ELSE [err |-> "Ok",
                 post |-> [st EXCEPT !.ti = info],
                 event |-> [event |-> "TokenInitializedEvent",
                            mint |-> info.mint, authority |-> info.authority,
                            name |-> info.name, symbol |-> info.symbol,
                            decimals |-> info.decimals]]

\* (mutant) mint_tokens without the authority check
mint_tokens_no_authority(st, authority, destination, amount, cpi_accepted) ==
    IF st.ti = NoAccount
    THEN [err |-> "AccountNotInitialized", post |-> st, event |-> NoEvent]
    ELSE IF st.ti.is_frozen
    THEN [err |-> "TokenFrozen", post |-> st, event |-> NoEvent]
    ELSE
        LET cpi == mint_to(st.bal, destination, amount, cpi_accepted)
        IN IF ~cpi.ok \/ st.ti.total_supply + amount > U64_MAX
           THEN [err |-> "LedgerError", post |-> st, event |-> NoEvent]
           ELSE [err |-> "Ok",
                 post |-> [ti |-> [st.ti EXCEPT !.total_supply = @ + amount,
                                                !.circulating_supply = @ + amount],
                           bal |-> cpi.bal],
                 event |-> NoEvent]

\* (mutant) mint_tokens without the freeze check
mint_tokens_no_freeze(st, authority, destination, amount, cpi_accepted) ==
    IF st.ti = NoAccount
    THEN [err |-> "AccountNotInitialized", post |-> st, event |-> NoEvent]
    ELSE IF authority # st.ti.authority
    THEN [err |-> "UnauthorizedMint", post |-> st, event |-> NoEvent]
    ELSE
        LET cpi == mint_to(st.bal, destination, amount, cpi_accepted)
        IN IF ~cpi.ok
           THEN [err |-> "LedgerError", post |-> st, event |-> NoEvent]
           ELSE IF st.ti.total_supply + amount > U64_MAX
           THEN [err |-> "NumericOverflow", post |-> st, event |-> NoEvent]
           ELSE [err |-> "Ok",
                 post |-> [ti |-> [st.ti EXCEPT !.total_supply = @ + amount,
                                                !.circulating_supply = @ + amount],
                           bal |-> cpi.bal],
                 event |-> NoEvent]

\* (mutant) mint_tokens with wrapping_add in place of checked_add
mint_tokens_wrapping(st, authority, destination, amount, cpi_accepted) ==
    IF st.ti = NoAccount
    THEN [err |-> "AccountNotInitialized", post |-> st, event |-> NoEvent]
    ELSE IF authority # st.ti.authority
    THEN [err |-> "UnauthorizedMint", post |-> st, event |-> NoEvent]
    ELSE IF st.ti.is_frozen
    THEN [err |-> "TokenFrozen", post |-> st, event |-> NoEvent]
    ELSE
        LET cpi == mint_to(st.bal, destination, amount, cpi_accepted)
        IN IF ~cpi.ok
           THEN [err |-> "LedgerError", post |-> st, event |-> NoEvent]
           ELSE [err |-> "Ok",
                 post |-> [ti |-> [st.ti EXCEPT
                                     !.total_supply = (@ + amount) % (U64_MAX + 1),
                                     !.circulating_supply = (@ + amount) % (U64_MAX + 1)],
                           bal |-> cpi.bal],
                 event |-> NoEvent]

\* (mutant) mint_tokens that forgets circulating_supply
mint_tokens_skips_circulating(st, authority, destination, amount, cpi_accepted) ==
    IF st.ti = NoAccount
    THEN [err |-> "AccountNotInitialized", post |-> st, event |-> NoEvent]
    ELSE IF authority # st.ti.authority
    THEN [err |-> "UnauthorizedMint", post |-> st, event |-> NoEvent]
    ELSE IF st.ti.is_frozen
    THEN [err |-> "TokenFrozen", post |-> st, event |-> NoEvent]
    ELSE
        LET cpi == mint_to(st.bal, destination, amount, cpi_accepted)
            st1 == [st EXCEPT !.bal = cpi.bal]
        IN IF ~cpi.ok
           THEN [err |-> "LedgerError", post |-> st, event |-> NoEvent]
           ELSE IF st1.ti.total_supply + amount > U64_MAX
           THEN [err |-> "NumericOverflow", post |-> st1, event |-> NoEvent]
           ELSE [err |-> "Ok",
                 post |-> [st1 EXCEPT !.ti.total_supply = @ + amount],
                 event |-> NoEvent]

\* mint_tokens(amount), signed by `authority`, to the token account `destination`
mint_tokens(st, authority, destination, amount, cpi_accepted) ==
    IF st.ti = NoAccount
    THEN [err |-> "AccountNotInitialized", post |-> st, event |-> NoEvent]
    ELSE IF authority # st.ti.authority
    THEN [err |-> "UnauthorizedMint", post |-> st, event |-> NoEvent]
    ELSE IF st.ti.is_frozen
    THEN [err |-> "TokenFrozen", post |-> st, event |-> NoEvent]
    ELSE
        LET cpi == mint_to(st.bal, destination, amount, cpi_accepted)
            st1 == [st EXCEPT !.bal = cpi.bal]
        IN IF ~cpi.ok
           THEN [err |-> "LedgerError", post |-> st, event |-> NoEvent]
           ELSE IF st1.ti.total_supply + amount > U64_MAX
           THEN [err |-> "NumericOverflow", post |-> st1, event |-> NoEvent]
           ELSE
               LET st2 == [st1 EXCEPT !.ti.total_supply = @ + amount]
               IN IF st2.ti.circulating_supply + amount > U64_MAX
                  THEN [err |-> "NumericOverflow", post |-> st2, event |-> NoEvent]
                  ELSE
                      LET st3 == [st2 EXCEPT !.ti.circulating_supply = @ + amount]
                      IN [err |-> "Ok",
                          post |-> st3,
                          event |-> [event |-> "TokensMintedEvent",
                                     mint |-> st3.ti.mint,
                                     destination |-> destination,
                                     amount |-> amount,
                                     total_supply |-> st3.ti.total_supply]]

\* (mutant) burn_tokens with wrapping_sub in place of checked_sub
burn_tokens_wrapping(st, owner, source, amount, cpi_accepted) ==
    IF st.ti = NoAccount
    THEN [err |-> "AccountNotInitialized", post |-> st, event |-> NoEvent]
    ELSE IF source # owner
    THEN [err |-> "ConstraintRaw", post |-> st, event |-> NoEvent]
    ELSE
        LET cpi == burn(st.bal, source, amount, cpi_accepted)
        IN IF ~cpi.ok
           THEN [err |-> "LedgerError", post |-> st, event |-> NoEvent]
           ELSE [err |-> "Ok",
                 post |-> [ti |-> [st.ti EXCEPT !.circulating_supply =
                                       (@ - amount) % (U64_MAX + 1)],
                           bal |-> cpi.bal],
                 event |-> NoEvent]

\* (mutant) burn_tokens rejected while the token is frozen, as mint_tokens is
burn_tokens_freeze_gated(st, owner, source, amount, cpi_accepted) ==
    IF st.ti = NoAccount
    THEN [err |-> "AccountNotInitialized", post |-> st, event |-> NoEvent]
    ELSE IF source # owner
    THEN [err |-> "ConstraintRaw", post |-> st, event |-> NoEvent]
    ELSE IF st.ti.is_frozen
    THEN [err |-> "TokenFrozen", post |-> st, event |-> NoEvent]
    ELSE
        LET cpi == burn(st.bal, source, amount, cpi_accepted)
        IN IF ~cpi.ok
           THEN [err |-> "LedgerError", post |-> st, event |-> NoEvent]
           ELSE IF st.ti.circulating_supply < amount
           THEN [err |-> "NumericOverflow", post |-> st, event |-> NoEvent]
           ELSE [err |-> "Ok",
                 post |-> [ti |-> [st.ti EXCEPT !.circulating_supply = @ - amount],
                           bal |-> cpi.bal],
                 event |-> NoEvent]

\* (mutant) burn_tokens that takes the amount off total_supply as well
burn_tokens_lowers_total(st, owner, source, amount, cpi_accepted) ==
    IF st.ti = NoAccount
    THEN [err |-> "AccountNotInitialized", post |-> st, event |-> NoEvent]
    ELSE IF source # owner
    THEN [err |-> "ConstraintRaw", post |-> st, event |-> NoEvent]
    ELSE
        LET cpi == burn(st.bal, source, amount, cpi_accepted)
        IN IF ~cpi.ok
           THEN [err |-> "LedgerError", post |-> st, event |-> NoEvent]
           ELSE IF st.ti.circulating_supply < amount
           THEN [err |-> "NumericOverflow", post |-> st, event |-> NoEvent]
           ELSE [err |-> "Ok",
                 post |-> [ti |-> [st.ti EXCEPT !.circulating_supply = @ - amount,
                                                !.total_supply = @ - amount],
                           bal |-> cpi.bal],
                 event |-> NoEvent]

\* burn_tokens(amount), signed by `owner`, from the token account `source`
\* (each key owns the one token account that carries its name)
burn_tokens(st, owner, source, amount, cpi_accepted) ==
    IF st.ti = NoAccount
    THEN [err |-> "AccountNotInitialized", post |-> st, event |-> NoEvent]
    ELSE IF source # owner
    THEN [err |-> "ConstraintRaw", post |-> st, event |-> NoEvent]
    ELSE
        LET cpi == burn(st.bal, source, amount, cpi_accepted)
            st1 == [st EXCEPT !.bal = cpi.bal]
        IN IF ~cpi.ok
           THEN [err |-> "LedgerError", post |-> st, event |-> NoEvent]
           ELSE IF st1.ti.circulating_supply < amount
           THEN [err |-> "NumericOverflow", post |-> st1, event |-> NoEvent]
           ELSE
               LET st2 == [st1 EXCEPT !.ti.circulating_supply = @ - amount]
               IN [err |-> "Ok",
                   post |-> st2,
                   event |-> [event |-> "TokensBurnedEvent",
                              mint |-> st2.ti.mint,
                              source |-> source,
                              amount |-> amount,
                              circulating_supply |-> st2.ti.circulating_supply]]

\* set_freeze_state(is_frozen), signed by `authority`
set_freeze_state(st, authority, is_frozen) ==
    IF st.ti = NoAccount
    THEN [err |-> "AccountNotInitialized", post |-> st, event |-> NoEvent]
    ELSE IF authority # st.ti.authority
    THEN [err |-> "UnauthorizedOperation", post |-> st, event |-> NoEvent]
    ELSE
        LET st1 == [st EXCEPT !.ti.is_frozen = is_frozen]
        IN [err |-> "Ok",
            post |-> st1,
            event |-> [event |-> "TokenFreezeStateChangedEvent",
                       mint |-> st1.ti.mint, is_frozen |-> is_frozen]]

\* (mutant) transfer_authority that reads old_authority after the assignment
transfer_authority_reads_late(st, authority, new_authority) ==
    IF st.ti = NoAccount
    THEN [err |-> "AccountNotInitialized", post |-> st, event |-> NoEvent]
    ELSE IF authority # st.ti.authority
    THEN [err |-> "UnauthorizedOperation", post |-> st, event |-> NoEvent]
    ELSE
        LET st1 == [st EXCEPT !.ti.authority = new_authority]
        IN [err |-> "Ok",
            post |-> st1,
            event |-> [event |-> "AuthorityTransferredEvent",
                       mint |-> st1.ti.mint,
                       old_authority |-> st1.ti.authority,
                       new_authority |-> new_authority]]

\* transfer_authority(new_authority), signed by `authority`
transfer_authority(st, authority, new_authority) ==
    IF st.ti = NoAccount
    THEN [err |-> "AccountNotInitialized", post |-> st, event |-> NoEvent]
    ELSE IF authority # st.ti.authority
    THEN [err |-> "UnauthorizedOperation", post |-> st, event |-> NoEvent]
    ELSE
        LET old_authority == st.ti.authority
            st1 == [st EXCEPT !.ti.authority = new_authority]
        IN [err |-> "Ok",
            post |-> st1,
            event |-> [event |-> "AuthorityTransferredEvent",
                       mint |-> st1.ti.mint,
                       old_authority |-> old_authority,
                       new_authority |-> new_authority]]

TokenState == [ti |-> token_info, bal |-> balances]

\* the ledger's account before any call of the controller
NoCommits == [minted |-> 0, burned |-> 0]

\* the ledger's account after the transaction of instruction `op` took its
\* balances from `before` to `after`: what token::mint_to added for mint_tokens,
\* what token::burn removed for burn_tokens
LedgerCommits(op, before, after) ==
    [minted |-> ledger_log.minted
                  + (IF op = "mint_tokens"
                     THEN LedgerSupply(after) - LedgerSupply(before) ELSE 0),
     burned |-> ledger_log.burned
                  + (IF op = "burn_tokens"
                     THEN LedgerSupply(before) - LedgerSupply(after) ELSE 0)]

\* one token transaction: run the handler, keep its writes only on Ok
TokenTx(op, args, res) ==
    LET out == TxOutcome(TokenState, res)
    IN /\ token_info' = out.ti
       /\ balances' = out.bal
       /\ last' = [op |-> op, args |-> args, err |-> res.err, event |-> res.event]
       /\ ledger_log' = LedgerCommits(op, balances, out.bal)
       /\ UNCHANGED <<templates, executions, now>>

InitializeToken ==
    \E authority \in Keys, name \in NameInputs, symbol \in SymbolInputs,
       uri \in UriInputs :
        TokenTx("initialize_token",
                [signer |-> authority],
                initialize_token(TokenState, authority, name, symbol, uri, 9, now))

MintTokens ==
    \E authority \in Keys, destination \in Keys, amount \in Amounts,
       cpi_accepted \in BOOLEAN :
        TokenTx("mint_tokens",
                [signer |-> authority, amount |-> amount, cpi_accepted |-> cpi_accepted],
                mint_tokens(TokenState, authority, destination, amount, cpi_accepted))

BurnTokens ==
    \E owner \in Keys, source \in Keys, amount \in Amounts, cpi_accepted \in BOOLEAN :
        TokenTx("burn_tokens",
                [signer |-> owner, source |-> source, amount |-> amount,
                 cpi_accepted |-> cpi_accepted],
                burn_tokens(TokenState, owner, source, amount, cpi_accepted))

SetFreezeState ==
    \E authority \in Keys, is_frozen \in BOOLEAN :
        TokenTx("set_freeze_state",
                [signer |-> authority, is_frozen |-> is_frozen],
                set_freeze_state(TokenState, authority, is_frozen))

TransferAuthority ==
    \E authority \in Keys, new_authority \in Keys :
        TokenTx("transfer_authority",
                [signer |-> authority, new_authority |-> new_authority],
                transfer_authority(TokenState, authority, new_authority))

NoCall == [op |-> "none", args |-> [signer |-> 0], err |-> "Ok", event |-> NoEvent]

TokenInit ==
    /\ token_info = NoAccount
    /\ balances \in [Keys -> 0..PreSupply]
    /\ templates = <<>>
    /\ executions = <<>>
    /\ now = 1
    /\ last = NoCall
    /\ ledger_log = NoCommits

TokenNext ==
    \/ InitializeToken
    \/ MintTokens
    \/ BurnTokens
    \/ SetFreezeState
    \/ TransferAuthority

TokenSpec == TokenInit /\ [][TokenNext]_vars

----------------------------------------------------------------------------
(* contracts/mcp/program.rs *)

MAX_TEMPLATE_ID_LEN == 64
MAX_TEMPLATE_NAME_LEN == 100
MAX_TEMPLATE_VERSION_LEN == 20
MAX_CATEGORY_LEN == 20
MAX_METADATA_LEN == 1024
MAX_TASK_ID_LEN == 64
MAX_HASH_LEN == 64

\* Option<T>
None == [some |-> FALSE]
Some(x) == [some |-> TRUE, val |-> x]

ExecutionStatus == {"InProgress", "Success", "Failure"}

\* inputs of initialize_template <<template_id, template_name, template_version,
\* category, metadata>>: all within their maxima, or one field over-long
TemplateInputs ==
    {<<1, MAX_TEMPLATE_NAME_LEN, MAX_TEMPLATE_VERSION_LEN, MAX_CATEGORY_LEN,
       MAX_METADATA_LEN>>,
     <<MAX_TEMPLATE_ID_LEN + 1, MAX_TEMPLATE_NAME_LEN, MAX_TEMPLATE_VERSION_LEN,
       MAX_CATEGORY_LEN, MAX_METADATA_LEN>>,
     <<1, MAX_TEMPLATE_NAME_LEN + 1, MAX_TEMPLATE_VERSION_LEN, MAX_CATEGORY_LEN,
       MAX_METADATA_LEN>>,
     <<1, MAX_TEMPLATE_NAME_LEN, MAX_TEMPLATE_VERSION_LEN + 1, MAX_CATEGORY_LEN,
       MAX_METADATA_LEN>>,
     <<1, MAX_TEMPLATE_NAME_LEN, MAX_TEMPLATE_VERSION_LEN, MAX_CATEGORY_LEN + 1,
       MAX_METADATA_LEN>>,
     <<1, MAX_TEMPLATE_NAME_LEN, MAX_TEMPLATE_VERSION_LEN, MAX_CATEGORY_LEN,
       MAX_METADATA_LEN + 1>>}
\* inputs of record_execution <<task_id, inputs_hash, outputs_hash>>
ExecutionInputs ==
    {<<1, MAX_HASH_LEN, MAX_HASH_LEN>>,
     <<MAX_TASK_ID_LEN + 1, MAX_HASH_LEN, MAX_HASH_LEN>>,
     <<1, MAX_HASH_LEN + 1, MAX_HASH_LEN>>,
     <<1, MAX_HASH_LEN, MAX_HASH_LEN + 1>>}
\* inputs of update_execution: outputs_hash absent, valid or over-long
HashUpdates == {None, Some(MAX_HASH_LEN), Some(MAX_HASH_LEN + 1)}
\* inputs of update_template <<template_name, template_version, metadata>>:
\* the tuples that pass validation, then those that fail it on the first, the
\* second and the third field
TemplateUpdates ==
    {<<None, None, None>>,
     <<Some(MAX_TEMPLATE_NAME_LEN), None, None>>,
     <<None, Some(MAX_TEMPLATE_VERSION_LEN), Some(MAX_METADATA_LEN)>>,
     <<Some(MAX_TEMPLATE_NAME_LEN + 1), None, None>>,
     <<Some(1), Some(MAX_TEMPLATE_VERSION_LEN + 1), None>>,
     <<Some(1), Some(1), Some(MAX_METADATA_LEN + 1)>>}
ActiveUpdates == {None, Some(TRUE), Some(FALSE)}

TemplateIds == {i[1] : i \in TemplateInputs}
TaskIds == {i[1] : i \in ExecutionInputs}

\* seeds = [b"template", template_id, creator.key()]: the address is the pair
TemplateAddrs == TemplateIds \X Keys
\* seeds = [b"execution", task_id, user.key()]
ExecutionAddrs == TaskIds \X Keys
\* the addresses the update instructions are aimed at: those a valid id derives
TemplateTargets == {a \in TemplateAddrs : a[1] <= MAX_TEMPLATE_ID_LEN}
ExecutionTargets == {a \in ExecutionAddrs : a[1] <= MAX_TASK_ID_LEN}

\* the account `init` creates, before the handler fills it (#[derive(Default)])
DefaultTemplate ==
    [discriminator |-> "TemplateAccount",
     template_id |-> 0, template_name |-> 0, template_version |-> 0,
     category |-> 0, creator |-> 0, metadata |-> 0,
     created_at |-> 0, updated_at |-> 0, usage_count |-> 0,
     is_active |-> FALSE, bump |-> 0]

DefaultExecution ==
    [discriminator |-> "ExecutionAccount",
     task_id |-> 0, template |-> <<0, 0>>, user |-> 0,
     inputs_hash |-> 0, outputs_hash |-> 0, status |-> "InProgress",
     started_at |-> 0, completed_at |-> 0, bump |-> 0]

\* TemplateAccount::space(template_id)
TemplateAccount_space(template_id) ==
    LET fixed_size == 8 + 32 + 8 + 8 + 8 + 1 + 1 + 4
        variable_size == 4 + template_id + 4 + 100 + 4 + 20 + 4 + 20 + 1024
    IN fixed_size + variable_size

\* bytes of a TemplateAccount as serialized: the discriminator, then the fields
\* in declaration order, each String / Vec<u8> as a 4-byte length and its bytes
TemplateAccount_size(t) ==
    8 + (4 + t.template_id) + (4 + t.template_name) + (4 + t.template_version)
      + (4 + t.category) + 32 + (4 + t.metadata) + 8 + 8 + 8 + 1 + 1

\* ExecutionAccount::space(task_id)
ExecutionAccount_space(task_id) ==
    LET fixed_size == 8 + 32 + 32 + 4 + 8 + 8 + 1
        variable_size == 4 + task_id + 4 + 64 + 4 + 64
    IN fixed_size + variable_size

\* bytes of an ExecutionAccount as serialized; the fieldless enum
\* ExecutionStatus is written as its one-byte variant index
ExecutionAccount_size(x) ==
    8 + (4 + x.task_id) + 32 + 32 + (4 + x.inputs_hash) + (4 + x.outputs_hash)
      + 1 + 8 + 8 + 1

Failed(code, st) == [err |-> code, post |-> st, event |-> NoEvent]

\* initialize_template, signed by `signer` (the `creator` account of the context)
initialize_template(st, signer, template_id, template_name, template_version, category, creator, metadata, clock) ==
    LET addr == <<template_id, signer>>
    IN IF st.templates[addr] # NoAccount
       THEN Failed("AccountAlreadyInUse", st)
       ELSE
        LET st0 == [st EXCEPT !.templates[addr] = DefaultTemplate]
        IN IF template_id > MAX_TEMPLATE_ID_LEN THEN Failed("TemplateTooLong", st0)
           ELSE IF template_name > MAX_TEMPLATE_NAME_LEN THEN Failed("NameTooLong", st0)
           ELSE IF template_version > MAX_TEMPLATE_VERSION_LEN
           THEN Failed("VersionTooLong", st0)
           ELSE IF category > MAX_CATEGORY_LEN THEN Failed("CategoryTooLong", st0)
           ELSE IF metadata > MAX_METADATA_LEN THEN Failed("MetadataTooLarge", st0)
           ELSE
            LET template == [discriminator |-> "TemplateAccount",
                             template_id |-> template_id,
                             template_name |-> template_name,
                             template_version |-> template_version,
                             category |-> category,
                             creator |-> creator,
                             metadata |-> metadata,
                             created_at |-> clock,
                             updated_at |-> clock,
                             usage_count |-> 0,
                             is_active |-> TRUE,
                             bump |-> 255]
            IN [err |-> "Ok",
                post |-> [st EXCEPT !.templates[addr] = template],
                event |-> [event |-> "TemplateCreatedEvent",
                           template_id |-> template.template_id,
                           creator |-> template.creator,
                           timestamp |-> template.created_at]]

IsTerminal(status) == status = "Success" \/ status = "Failure"

\* (mutant) record_execution that forgets the template's usage counter
record_execution_no_count(st, user, tmpl, task_id, inputs_hash, outputs_hash, status, clock) ==
    LET addr == <<task_id, user>>
    IN IF st.templates[tmpl] = NoAccount
       THEN Failed("AccountNotInitialized", st)
       ELSE IF st.executions[addr] # NoAccount
       THEN Failed("AccountAlreadyInUse", st)
       ELSE IF task_id > MAX_TASK_ID_LEN THEN Failed("TaskIdTooLong", st)
       ELSE IF inputs_hash > MAX_HASH_LEN \/ outputs_hash > MAX_HASH_LEN
       THEN Failed("HashTooLong", st)
       ELSE [err |-> "Ok",
             post |-> [st EXCEPT !.executions[addr] =
                          [discriminator |-> "ExecutionAccount",
                           task_id |-> task_id, template |-> tmpl, user |-> user,
                           inputs_hash |-> inputs_hash, outputs_hash |-> outputs_hash,
                           status |-> status, started_at |-> clock,
                           completed_at |-> IF IsTerminal(status) THEN clock ELSE 0,
                           bump |-> 255]],
             event |-> NoEvent]

\* (mutant) record_execution that requires an active template
record_execution_active_only(st, user, tmpl, task_id, inputs_hash, outputs_hash, status, clock) ==
    IF st.templates[tmpl] # NoAccount /\ ~st.templates[tmpl].is_active
    THEN Failed("TemplateInactive", st)
    ELSE
    LET addr == <<task_id, user>>
    IN IF st.templates[tmpl] = NoAccount
       THEN Failed("AccountNotInitialized", st)
       ELSE IF st.executions[addr] # NoAccount
       THEN Failed("AccountAlreadyInUse", st)
       ELSE IF task_id > MAX_TASK_ID_LEN THEN Failed("TaskIdTooLong", st)
       ELSE IF inputs_hash > MAX_HASH_LEN \/ outputs_hash > MAX_HASH_LEN
       THEN Failed("HashTooLong", st)
       ELSE [err |-> "Ok",
             post |-> [st EXCEPT
                         !.executions[addr] =
                             [discriminator |-> "ExecutionAccount",
                              task_id |-> task_id, template |-> tmpl, user |-> user,
                              inputs_hash |-> inputs_hash,
                              outputs_hash |-> outputs_hash,
                              status |-> status, started_at |-> clock,
                              completed_at |-> IF IsTerminal(status) THEN clock ELSE 0,
                              bump |-> 255],
                         !.templates[tmpl].usage_count = @ + 1,
                         !.templates[tmpl].updated_at = clock],
             event |-> NoEvent]

\* record_execution, signed by `user`, on the template account at `tmpl`
record_execution(st, user, tmpl, task_id, inputs_hash, outputs_hash, status, clock) ==
    LET addr == <<task_id, user>>
    IN IF st.templates[tmpl] = NoAccount
       THEN Failed("AccountNotInitialized", st)
       ELSE IF st.executions[addr] # NoAccount
       THEN Failed("AccountAlreadyInUse", st)
       ELSE
        LET st0 == [st EXCEPT !.executions[addr] = DefaultExecution]
        IN IF task_id > MAX_TASK_ID_LEN THEN Failed("TaskIdTooLong", st0)
           ELSE IF inputs_hash > MAX_HASH_LEN THEN Failed("HashTooLong", st0)
           ELSE IF outputs_hash > MAX_HASH_LEN THEN Failed("HashTooLong", st0)
           ELSE
            LET execution == [discriminator |-> "ExecutionAccount",
                              task_id |-> task_id,
                              template |-> tmpl,
                              user |-> user,
                              inputs_hash |-> inputs_hash,
                              outputs_hash |-> outputs_hash,
                              status |-> status,
                              started_at |-> clock,
                              completed_at |-> IF IsTerminal(status) THEN clock ELSE 0,
                              bump |-> 255]
                st1 == [st0 EXCEPT !.executions[addr] = execution]
                \* the counter cannot reach u64::MAX: every increment takes a new
                \* execution account
                st2 == [st1 EXCEPT !.templates[tmpl].usage_count = @ + 1,
                                   !.templates[tmpl].updated_at = clock]
            IN [err |-> "Ok",
                post |-> st2,
                event |-> [event |-> "ExecutionRecordedEvent",
                           task_id |-> execution.task_id,
                           template_id |-> st2.templates[tmpl].template_id,
                           user |-> execution.user,
                           status |-> execution.status,
                           timestamp |-> execution.started_at]]

\* (mutant) update_execution that does not stamp completed_at
update_execution_no_stamp(st, signer, addr, status, outputs_hash, clock) ==
    IF st.executions[addr] = NoAccount
    THEN Failed("AccountNotInitialized", st)
    ELSE IF st.executions[addr].user # signer
    THEN Failed("ConstraintRaw", st)
    ELSE IF st.executions[addr].status # "InProgress"
    THEN Failed("InvalidExecutionStatus", st)
    ELSE IF outputs_hash.some /\ outputs_hash.val > MAX_HASH_LEN
    THEN Failed("HashTooLong", st)
    ELSE [err |-> "Ok",
          post |-> [st EXCEPT !.executions[addr].status = status],
          event |-> NoEvent]

\* (mutant) update_execution without the InProgress requirement
update_execution_no_guard(st, signer, addr, status, outputs_hash, clock) ==
    IF st.executions[addr] = NoAccount
    THEN Failed("AccountNotInitialized", st)
    ELSE IF st.executions[addr].user # signer
    THEN Failed("ConstraintRaw", st)
    ELSE IF outputs_hash.some /\ outputs_hash.val > MAX_HASH_LEN
    THEN Failed("HashTooLong", st)
    ELSE [err |-> "Ok",
          post |-> [st EXCEPT !.executions[addr].status = status,
                              !.executions[addr].completed_at =
                                  IF IsTerminal(status) THEN clock ELSE @],
          event |-> NoEvent]

\* update_execution, signed by `signer`, on the execution account at `addr`
update_execution(st, signer, addr, status, outputs_hash, clock) ==
    IF st.executions[addr] = NoAccount
    THEN Failed("AccountNotInitialized", st)
    ELSE IF st.executions[addr].user # signer
    THEN Failed("ConstraintRaw", st)
    ELSE IF st.executions[addr].status # "InProgress"
    THEN Failed("InvalidExecutionStatus", st)
    ELSE
        LET st1 == [st EXCEPT !.executions[addr].status = status]
        IN IF outputs_hash.some /\ outputs_hash.val > MAX_HASH_LEN
           THEN Failed("HashTooLong", st1)
           ELSE
            LET st2 == IF outputs_hash.some
                       THEN [st1 EXCEPT !.executions[addr].outputs_hash = outputs_hash.val]
                       ELSE st1
                st3 == IF IsTerminal(status)
                       THEN [st2 EXCEPT !.executions[addr].completed_at = clock]
                       ELSE st2
            IN [err |-> "Ok",
                post |-> st3,
                event |-> [event |-> "ExecutionUpdatedEvent",
                           task_id |-> st3.executions[addr].task_id,
                           status |-> st3.executions[addr].status,
                           timestamp |-> clock]]

\* (mutant) update_template without the creator constraint
update_template_any_signer(st, signer, addr, template_name, template_version, metadata, is_active, clock) ==
    IF st.templates[addr] = NoAccount
    THEN Failed("AccountNotInitialized", st)
    ELSE IF template_name.some /\ template_name.val > MAX_TEMPLATE_NAME_LEN
    THEN Failed("NameTooLong", st)
    ELSE IF template_version.some /\ template_version.val > MAX_TEMPLATE_VERSION_LEN
    THEN Failed("VersionTooLong", st)
    ELSE IF metadata.some /\ metadata.val > MAX_METADATA_LEN
    THEN Failed("MetadataTooLarge", st)
    ELSE [err |-> "Ok",
          post |-> [st EXCEPT
                      !.templates[addr].template_name =
                          IF template_name.some THEN template_name.val ELSE @,
                      !.templates[addr].template_version =
                          IF template_version.some THEN template_version.val ELSE @,
                      !.templates[addr].metadata =
                          IF metadata.some THEN metadata.val ELSE @,
                      !.templates[addr].is_active =
                          IF is_active.some THEN is_active.val ELSE @,
                      !.templates[addr].updated_at = clock],
          event |-> NoEvent]

\* (mutant) update_template that takes an absent is_active for `true`
update_template_active_by_default(st, signer, addr, template_name, template_version, metadata, is_active, clock) ==
    IF st.templates[addr] = NoAccount
    THEN Failed("AccountNotInitialized", st)
    ELSE IF st.templates[addr].creator # signer
    THEN Failed("ConstraintRaw", st)
    ELSE IF template_name.some /\ template_name.val > MAX_TEMPLATE_NAME_LEN
    THEN Failed("NameTooLong", st)
    ELSE IF template_version.some /\ template_version.val > MAX_TEMPLATE_VERSION_LEN
    THEN Failed("VersionTooLong", st)
    ELSE IF metadata.some /\ metadata.val > MAX_METADATA_LEN
    THEN Failed("MetadataTooLarge", st)
    ELSE [err |-> "Ok",
          post |-> [st EXCEPT
                      !.templates[addr].template_name =
                          IF template_name.some THEN template_name.val ELSE @,
                      !.templates[addr].template_version =
                          IF template_version.some THEN template_version.val ELSE @,
                      !.templates[addr].metadata =
                          IF metadata.some THEN metadata.val ELSE @,
                      !.templates[addr].is_active =
                          IF is_active.some THEN is_active.val ELSE TRUE,
                      !.templates[addr].updated_at = clock],
          event |-> NoEvent]

\* update_template, signed by `signer`, on the template account at `addr`
update_template(st, signer, addr, template_name, template_version, metadata, is_active, clock) ==
    IF st.templates[addr] = NoAccount
    THEN Failed("AccountNotInitialized", st)
    ELSE IF st.templates[addr].creator # signer
    THEN Failed("ConstraintRaw", st)
    ELSE IF template_name.some /\ template_name.val > MAX_TEMPLATE_NAME_LEN
    THEN Failed("NameTooLong", st)
    ELSE
        LET st1 == IF template_name.some
                   THEN [st EXCEPT !.templates[addr].template_name = template_name.val]
                   ELSE st
        IN IF template_version.some /\ template_version.val > MAX_TEMPLATE_VERSION_LEN
           THEN Failed("VersionTooLong", st1)
           ELSE
            LET st2 == IF template_version.some
                       THEN [st1 EXCEPT !.templates[addr].template_version =
                                            template_version.val]
                       ELSE st1
            IN IF metadata.some /\ metadata.val > MAX_METADATA_LEN
               THEN Failed("MetadataTooLarge", st2)
               ELSE
                LET st3 == IF metadata.some
                           THEN [st2 EXCEPT !.templates[addr].metadata = metadata.val]
                           ELSE st2
                    st4 == IF is_active.some
                           THEN [st3 EXCEPT !.templates[addr].is_active = is_active.val]
                           ELSE st3
                    st5 == [st4 EXCEPT !.templates[addr].updated_at = clock]
                IN [err |-> "Ok",
                    post |-> st5,
                    event |-> [event |-> "TemplateUpdatedEvent",
                               template_id |-> st5.templates[addr].template_id,
                               updater |-> signer,
                               timestamp |-> st5.templates[addr].updated_at]]

McpState == [templates |-> templates, executions |-> executions]

\* one registry transaction: run the handler, keep its writes only on Ok
McpTx(res) ==
    LET out == TxOutcome(McpState, res)
    IN /\ templates' = out.templates
       /\ executions' = out.executions
       /\ UNCHANGED <<token_info, balances, now, last, ledger_log>>

InitializeTemplate ==
    \E signer \in Keys, in \in TemplateInputs, creator \in Keys :
        McpTx(initialize_template(McpState, signer, in[1], in[2], in[3], in[4],
                                  creator, in[5], now))

RecordExecution ==
    \E user \in Keys, tmpl \in TemplateTargets, in \in ExecutionInputs,
       status \in ExecutionStatus :
        McpTx(record_execution(McpState, user, tmpl, in[1], in[2], in[3], status, now))

UpdateExecution ==
    \E signer \in Keys, addr \in ExecutionTargets, status \in ExecutionStatus,
       outputs_hash \in HashUpdates :
        McpTx(update_execution(McpState, signer, addr, status, outputs_hash, now))

UpdateTemplate ==
    \E signer \in Keys, addr \in TemplateTargets, up \in TemplateUpdates,
       is_active \in ActiveUpdates :
        McpTx(update_template(McpState, signer, addr, up[1], up[2], up[3],
                              is_active, now))

\* the clock moves between transactions
Tick ==
    /\ now < MaxTime
    /\ now' = now + 1
    /\ UNCHANGED <<token_info, balances, templates, executions, last, ledger_log>>

McpInit ==
    /\ token_info = NoAccount
    /\ balances = [k \in Keys |-> 0]
    /\ templates = [a \in TemplateAddrs |-> NoAccount]
    /\ executions = [a \in ExecutionAddrs |-> NoAccount]
    /\ now = 1
    /\ last = NoCall
    /\ ledger_log = NoCommits

McpNext ==
    \/ InitializeTemplate
    \/ RecordExecution
    \/ UpdateExecution
    \/ UpdateTemplate
    \/ Tick

McpSpec == McpInit /\ [][McpNext]_vars

----------------------------------------------------------------------------
(* Properties of the token supply controller, checked under TokenSpec *)

IsMint(l) == l.op = "mint_tokens"
IsBurn(l) == l.op = "burn_tokens"
HasToken == token_info # NoAccount

\* the delegated call of the step's instruction goes through on the ledger
MintToSucceeds(l) ==
    l.args.cpi_accepted /\ LedgerSupply(balances) + l.args.amount <= U64_MAX
BurnSucceeds(l) ==
    l.args.cpi_accepted /\ balances[l.args.source] >= l.args.amount

\* C1: in every reachable state of a TokenInfo account,
\* 0 <= circulating_supply <= total_supply (and both fit a u64).
C1_SupplyInvariant ==
    HasToken =>
        /\ 0 <= token_info.circulating_supply
        /\ token_info.circulating_supply <= token_info.total_supply
        /\ token_info.total_supply <= U64_MAX

\* a burn has succeeded and left 0 < circulating_supply < total_supply
C1_Witness ==
    /\ HasToken
    /\ IsBurn(last) /\ last.err = "Ok" /\ last.args.amount > 0
    /\ 0 < token_info.circulating_supply
    /\ token_info.circulating_supply < token_info.total_supply

\* a mint by the authority on an unfrozen token that would take total_supply
\* past u64::MAX
C2_OverflowingMint(l) ==
    /\ IsMint(l) /\ HasToken
    /\ l.args.signer = token_info.authority
    /\ ~token_info.is_frozen
    /\ token_info.total_supply + l.args.amount > U64_MAX

\* C2 as stated: every such mint fails with NumericOverflow and leaves the
\* counters and the ledger as they were.
C2_AsStated ==
    [][C2_OverflowingMint(last') =>
          /\ last'.err = "NumericOverflow"
          /\ UNCHANGED <<token_info, balances>>]_vars

\* C2 as amended: every such mint fails, with NumericOverflow when the delegated
\* mint_to itself goes through and with the ledger's error when it does not;
\* the counters and the ledger are left as they were.
C2_OverflowAborts ==
    [][C2_OverflowingMint(last') =>
          /\ last'.err = (IF MintToSucceeds(last') THEN "NumericOverflow"
                          ELSE "LedgerError")
          /\ UNCHANGED <<token_info, balances>>]_vars

\* an overflowing mint was refused with NumericOverflow after the ledger had
\* accepted the delegated mint
C2_Witness ==
    /\ C2_OverflowingMint(last)
    /\ MintToSucceeds(last)
    /\ last.err = "NumericOverflow"

\* C3: a mint_tokens whose signer is not the authority fails with
\* UnauthorizedMint, whatever the amount and the freeze state, emits nothing and
\* leaves the TokenInfo account and the ledger unchanged.
C3_UnauthorizedMint ==
    [][(IsMint(last') /\ HasToken /\ last'.args.signer # token_info.authority) =>
          /\ last'.err = "UnauthorizedMint"
          /\ last'.event = NoEvent
          /\ UNCHANGED <<token_info, balances>>]_vars

\* a non-authority mint that the ledger would have accepted was refused on a
\* frozen token
C3_Witness ==
    /\ IsMint(last) /\ HasToken
    /\ last.args.signer # token_info.authority
    /\ last.args.amount > 0 /\ MintToSucceeds(last)
    /\ token_info.is_frozen
    /\ last.err = "UnauthorizedMint"

\* C4 as stated: while is_frozen, every mint_tokens call fails with TokenFrozen.
C4_AsStated ==
    [][(IsMint(last') /\ HasToken /\ token_info.is_frozen) =>
          /\ last'.err = "TokenFrozen"
          /\ UNCHANGED <<token_info, balances>>]_vars

\* C4 as amended: while is_frozen, every mint_tokens call fails before the ledger
\* is invoked, with TokenFrozen when signed by the authority and with
\* UnauthorizedMint otherwise; and no step taken from a frozen state raises
\* total_supply or circulating_supply.
C4_FrozenBlocksMint ==
    [][(HasToken /\ token_info.is_frozen) =>
          /\ IsMint(last') =>
                /\ last'.err = (IF last'.args.signer = token_info.authority
                                THEN "TokenFrozen" ELSE "UnauthorizedMint")
                /\ UNCHANGED <<token_info, balances>>
          /\ token_info'.total_supply = token_info.total_supply
          /\ token_info'.circulating_supply <= token_info.circulating_supply]_vars

\* the authority's mint, which the ledger would have accepted, was refused with
\* TokenFrozen
C4_Witness ==
    /\ IsMint(last) /\ HasToken /\ token_info.is_frozen
    /\ last.args.signer = token_info.authority
    /\ last.args.amount > 0 /\ MintToSucceeds(last)
    /\ token_info.total_supply + last.args.amount <= U64_MAX
    /\ last.err = "TokenFrozen"

C6_AsStated ==
    [][(IsBurn(last') /\ HasToken
        /\ last'.args.amount > token_info.circulating_supply) =>
          /\ last'.err = "NumericOverflow"
          /\ UNCHANGED <<token_info, balances>>]_vars

\* C6 as amended: a successful burn lowers circulating_supply by amount and
\* leaves total_supply, authority and is_frozen alone; a burn with
\* amount > circulating_supply fails (NumericOverflow when the source is the
\* signer's and the delegated burn goes through, the constraint's or the
\* ledger's error otherwise) and changes nothing; total_supply never decreases
\* and changes only in a successful mint_tokens.
C6_BurnEffect ==
    [][/\ (IsBurn(last') /\ HasToken /\ last'.err = "Ok") =>
            /\ token_info'.circulating_supply =
                  token_info.circulating_supply - last'.args.amount
            /\ token_info'.total_supply = token_info.total_supply
            /\ token_info'.authority = token_info.authority
            /\ token_info'.is_frozen = token_info.is_frozen
       /\ (IsBurn(last') /\ HasToken
           /\ last'.args.amount > token_info.circulating_supply) =>
            /\ last'.err = (IF last'.args.source # last'.args.signer
                            THEN "ConstraintRaw"
                            ELSE IF BurnSucceeds(last') THEN "NumericOverflow"
                            ELSE "LedgerError")
            /\ UNCHANGED <<token_info, balances>>
       /\ HasToken =>
            /\ token_info'.total_supply >= token_info.total_supply
            /\ token_info'.total_supply # token_info.total_supply =>
                  IsMint(last') /\ last'.err = "Ok"]_vars

\* a burn the ledger would have carried out was refused with NumericOverflow
\* because it exceeds circulating_supply
C6_Witness ==
    /\ IsBurn(last) /\ HasToken
    /\ last.args.source = last.args.signer
    /\ BurnSucceeds(last)
    /\ last.args.amount > token_info.circulating_supply
    /\ last.err = "NumericOverflow"

\* C7: in mint_tokens and burn_tokens the ledger and the counters move together
\* or not at all: a refused delegated call fails the instruction, a failed
\* instruction changes neither the counters nor the ledger, and a successful one
\* moves the ledger's supply and circulating_supply by the same amount.
C7_LedgerAndCountersTogether ==
    [][((IsMint(last') \/ IsBurn(last')) /\ HasToken) =>
          /\ (IsMint(last') /\ ~MintToSucceeds(last')) => last'.err # "Ok"
          /\ (IsBurn(last') /\ ~BurnSucceeds(last')) => last'.err # "Ok"
          /\ last'.err # "Ok" => UNCHANGED <<token_info, balances>>
          /\ LedgerSupply(balances') - LedgerSupply(balances) =
                token_info'.circulating_supply - token_info.circulating_supply
          /\ last'.err = "Ok" =>
                LedgerSupply(balances') - LedgerSupply(balances) =
                    (IF IsMint(last') THEN last'.args.amount
                     ELSE 0 - last'.args.amount)]_vars

\* a burn failed on the counter update after the ledger had accepted it, and a
\* positive amount is still in the source account
C7_Witness ==
    /\ IsBurn(last) /\ HasToken
    /\ last.err = "NumericOverflow"
    /\ last.args.amount > 0
    /\ balances[last.args.signer] >= last.args.amount

----------------------------------------------------------------------------
(* Properties of the template / execution registry, checked under McpSpec *)

HasTemplate(t) == templates[t] # NoAccount
HasExecution(e) == executions[e] # NoAccount

\* C8: for every execution record in every reachable state,
\* completed_at = 0 exactly when status = InProgress.
C8_CompletedIffNotInProgress ==
    \A e \in ExecutionAddrs :
        HasExecution(e) =>
            (executions[e].completed_at = 0 <=> executions[e].status = "InProgress")

\* one execution was completed by update_execution after it was started, while
\* another is still in progress
C8_Witness ==
    \E e, f \in ExecutionAddrs :
        /\ HasExecution(e) /\ HasExecution(f)
        /\ IsTerminal(executions[e].status)
        /\ executions[e].completed_at > executions[e].started_at
        /\ executions[f].status = "InProgress"
        /\ executions[f].completed_at = 0

\* C9 as stated: on an execution whose status is Success or Failure, every
\* update_execution call fails with InvalidExecutionStatus.
C9_AsStated ==
    \A e \in ExecutionTargets, signer \in Keys, status \in ExecutionStatus,
       outputs_hash \in HashUpdates :
        (HasExecution(e) /\ IsTerminal(executions[e].status)) =>
            update_execution(McpState, signer, e, status, outputs_hash, now).err
                = "InvalidExecutionStatus"

\* what update_execution answers on a terminal execution
C9_TerminalRejects ==
    \A e \in ExecutionTargets, signer \in Keys, status \in ExecutionStatus,
       outputs_hash \in HashUpdates :
        (HasExecution(e) /\ IsTerminal(executions[e].status)) =>
            LET res == update_execution(McpState, signer, e, status, outputs_hash, now)
            IN /\ res.err = (IF signer = executions[e].user
                             THEN "InvalidExecutionStatus" ELSE "ConstraintRaw")
               /\ TxOutcome(McpState, res) = McpState

\* what a step may do to an execution record
C9_TerminalStep ==
    \A e \in ExecutionAddrs :
        HasExecution(e) =>
            /\ IsTerminal(executions[e].status) => executions'[e] = executions[e]
            /\ executions'[e].status = "InProgress" =>
                  executions[e].status = "InProgress"
            /\ executions[e].completed_at # 0 =>
                  executions'[e].completed_at = executions[e].completed_at

\* C9 as amended: once an execution's status is Success or Failure, every further
\* update_execution call fails - with InvalidExecutionStatus when signed by the
\* execution's user, with the account constraint's error otherwise - and status,
\* outputs_hash and completed_at never change again; InProgress is never
\* re-entered and completed_at is set at most once.
C9_TerminalIsFinal == [](C9_TerminalRejects) /\ [][C9_TerminalStep]_vars

\* an execution was completed by update_execution at an earlier time than now,
\* and its user's further update is refused
C9_Witness ==
    \E e \in ExecutionTargets :
        /\ HasExecution(e)
        /\ IsTerminal(executions[e].status)
        /\ executions[e].started_at < executions[e].completed_at
        /\ update_execution(McpState, executions[e].user, e, "InProgress",
                            Some(MAX_HASH_LEN), now).err = "InvalidExecutionStatus"

\* the executions a step creates that refer to template t
NewExecutionsOf(t) ==
    {e \in ExecutionAddrs :
        /\ ~HasExecution(e)
        /\ executions'[e] # NoAccount
        /\ executions'[e].template = t}

\* what the handlers do to usage_count
C10_HandlersOnUsage ==
    \A t \in TemplateTargets :
        HasTemplate(t) =>
            /\ \A user \in Keys, tmpl \in TemplateTargets, in \in ExecutionInputs,
                  status \in ExecutionStatus :
                  LET res == record_execution(McpState, user, tmpl, in[1], in[2], in[3],
                                              status, now)
                      out == TxOutcome(McpState, res)
                  IN out.templates[t].usage_count =
                        templates[t].usage_count
                            + (IF res.err = "Ok" /\ tmpl = t THEN 1 ELSE 0)
            /\ \A signer \in Keys, addr \in TemplateTargets, up \in TemplateUpdates,
                  is_active \in ActiveUpdates :
                  LET res == update_template(McpState, signer, addr, up[1], up[2],
                                             up[3], is_active, now)
                  IN TxOutcome(McpState, res).templates[t].usage_count =
                        templates[t].usage_count
            /\ \A signer \in Keys, addr \in ExecutionTargets,
                  status \in ExecutionStatus, outputs_hash \in HashUpdates :
                  LET res == update_execution(McpState, signer, addr, status,
                                              outputs_hash, now)
                  IN TxOutcome(McpState, res).templates[t].usage_count =
                        templates[t].usage_count

\* what a step may do to usage_count
C10_UsageStep ==
    \A t \in TemplateAddrs :
        /\ (~HasTemplate(t) /\ templates'[t] # NoAccount) =>
              templates'[t].usage_count = 0
        /\ HasTemplate(t) =>
              /\ templates'[t] # NoAccount
              /\ templates'[t].usage_count =
                    templates[t].usage_count + Cardinality(NewExecutionsOf(t))
              /\ Cardinality(NewExecutionsOf(t)) <= 1

\* C10: usage_count starts at 0, goes up by exactly one in a successful
\* record_execution that refers to the template, and is left alone by failed
\* record_execution calls, by those that refer to another template, by
\* update_template and by update_execution.
C10_UsageCount == [](C10_HandlersOnUsage) /\ [][C10_UsageStep]_vars

\* two executions were recorded against one template while another template
\* stayed at zero
C10_Witness ==
    \E t, u \in TemplateTargets :
        /\ t # u
        /\ HasTemplate(t) /\ HasTemplate(u)
        /\ templates[t].usage_count = 2
        /\ templates[u].usage_count = 0
        /\ templates[u].updated_at > templates[u].created_at

\* the conditions under which record_execution is refused
RecordExecutionRefused(user, tmpl, in) ==
    \/ ~HasTemplate(tmpl)
    \/ HasExecution(<<in[1], user>>)
    \/ in[1] > MAX_TASK_ID_LEN
    \/ in[2] > MAX_HASH_LEN
    \/ in[3] > MAX_HASH_LEN

\* what one record_execution call leaves behind
C11_CallIsAtomic ==
    \A user \in Keys, tmpl \in TemplateTargets, in \in ExecutionInputs,
       status \in ExecutionStatus :
        LET res == record_execution(McpState, user, tmpl, in[1], in[2], in[3],
                                    status, now)
            out == TxOutcome(McpState, res)
            e == <<in[1], user>>
        IN IF RecordExecutionRefused(user, tmpl, in)
           THEN /\ res.err # "Ok"
                /\ out.executions = executions
                /\ out.templates = templates
           ELSE /\ res.err = "Ok"
                /\ out.executions[e] # NoAccount
                /\ out.executions[e].template = tmpl
                /\ out.templates[tmpl].usage_count = templates[tmpl].usage_count + 1
                /\ out.templates[tmpl].updated_at = now

\* a step shows both effects or neither
C11_BothOrNeither ==
    /\ \A e \in ExecutionAddrs :
          (~HasExecution(e) /\ executions'[e] # NoAccount) =>
              LET t == executions'[e].template
              IN /\ HasTemplate(t)
                 /\ templates'[t].usage_count = templates[t].usage_count + 1
                 /\ templates'[t].updated_at = now
    /\ \A t \in TemplateAddrs :
          (HasTemplate(t) /\ templates'[t].usage_count # templates[t].usage_count) =>
              \E e \in ExecutionAddrs :
                  /\ ~HasExecution(e)
                  /\ executions'[e] # NoAccount
                  /\ executions'[e].template = t

\* C11: record_execution is atomic across the execution record and the
\* template: a call that passes validation creates the execution record and
\* advances the template's usage_count and updated_at; a refused call (over-long
\* task_id, inputs_hash or outputs_hash, missing template, occupied address)
\* creates no execution record and leaves the template unchanged; no step shows
\* only one of the two effects.
C11_RecordExecutionAtomic == [](C11_CallIsAtomic) /\ [][C11_BothOrNeither]_vars

\* an execution was recorded against a template after the template's creation
\* time, and a further call on the same template with an over-long outputs_hash
\* is refused
C11_Witness ==
    \E e \in ExecutionTargets, u \in Keys :
        /\ HasExecution(e)
        /\ templates[executions[e].template].updated_at = executions[e].started_at
        /\ templates[executions[e].template].created_at < executions[e].started_at
        /\ templates[executions[e].template].usage_count = 1
        /\ ~HasExecution(<<1, u>>)
        /\ record_execution(McpState, u, executions[e].template, 1, MAX_HASH_LEN,
                            MAX_HASH_LEN + 1, "InProgress", now).err = "HashTooLong"

\* every call of the four registry instructions on the current state, as the
\* handler's result
McpCalls ==
    {initialize_template(McpState, c[1], c[2][1], c[2][2], c[2][3], c[2][4], c[3],
                         c[2][5], now) :
        c \in Keys \X TemplateInputs \X Keys}
    \cup {record_execution(McpState, c[1], c[2], c[3][1], c[3][2], c[3][3], c[4], now) :
        c \in Keys \X TemplateTargets \X ExecutionInputs \X ExecutionStatus}
    \cup {update_execution(McpState, c[1], c[2], c[3], c[4], now) :
        c \in Keys \X ExecutionTargets \X ExecutionStatus \X HashUpdates}
    \cup {update_template(McpState, c[1], c[2], c[3][1], c[3][2], c[3][3], c[4], now) :
        c \in Keys \X TemplateTargets \X TemplateUpdates \X ActiveUpdates}

\* C12 as stated: a call that fails validation has mutated no field by the time
\* it fails.
C12_AsStated ==
    \A res \in McpCalls :
        res.err # "Ok" =>
            /\ \A t \in TemplateAddrs :
                  HasTemplate(t) => res.post.templates[t] = templates[t]
            /\ \A e \in ExecutionAddrs :
                  HasExecution(e) => res.post.executions[e] = executions[e]

\* C12 as amended: every validation failure aborts the entire operation and no
\* write made before the failure is kept: update_template with a valid new name
\* and an over-long version or metadata leaves the template record unchanged,
\* update_execution with an over-long outputs_hash leaves the execution record
\* unchanged.
C12_FailureKeepsNothing ==
    /\ \A res \in McpCalls :
          res.err # "Ok" => TxOutcome(McpState, res) = McpState
    /\ \A t \in TemplateTargets, is_active \in ActiveUpdates :
          HasTemplate(t) =>
              LET ver == update_template(McpState, templates[t].creator, t, Some(1),
                             Some(MAX_TEMPLATE_VERSION_LEN + 1), None, is_active, now)
                  met == update_template(McpState, templates[t].creator, t, Some(1),
                             Some(1), Some(MAX_METADATA_LEN + 1), is_active, now)
              IN /\ ver.err = "VersionTooLong"
                 /\ met.err = "MetadataTooLarge"
                 /\ TxOutcome(McpState, ver).templates[t] = templates[t]
                 /\ TxOutcome(McpState, met).templates[t] = templates[t]
    /\ \A e \in ExecutionTargets, status \in ExecutionStatus :
          (HasExecution(e) /\ executions[e].status = "InProgress") =>
              LET res == update_execution(McpState, executions[e].user, e, status,
                                          Some(MAX_HASH_LEN + 1), now)
              IN /\ res.err = "HashTooLong"
                 /\ TxOutcome(McpState, res).executions[e] = executions[e]

\* a template updated earlier than now whose creator's next update has a valid
\* name in front of an over-long version, and an execution in progress whose
\* user's update to Success carries an over-long outputs_hash: both handlers
\* have written a field by the time they fail
C12_Witness ==
    \E t \in TemplateTargets, e \in ExecutionTargets :
        /\ HasTemplate(t) /\ HasExecution(e)
        /\ templates[t].updated_at < now
        /\ executions[e].status = "InProgress"
        /\ LET ver == update_template(McpState, templates[t].creator, t, Some(1),
                          Some(MAX_TEMPLATE_VERSION_LEN + 1), None, Some(FALSE), now)
               res == update_execution(McpState, executions[e].user, e, "Success",
                                       Some(MAX_HASH_LEN + 1), now)
           IN /\ ver.err = "VersionTooLong"
              /\ ver.post.templates[t].template_name # templates[t].template_name
              /\ res.err = "HashTooLong"
              /\ res.post.executions[e].status = "Success"

\* what the two update instructions answer to each signer
C13_OnlyOwnerUpdates ==
    /\ \A signer \in Keys, t \in TemplateTargets, up \in TemplateUpdates,
          is_active \in ActiveUpdates :
          HasTemplate(t) =>
              LET res == update_template(McpState, signer, t, up[1], up[2], up[3],
                                         is_active, now)
              IN /\ res.err = "Ok" => signer = templates[t].creator
                 /\ signer # templates[t].creator =>
                       /\ res.err # "Ok"
                       /\ TxOutcome(McpState, res) = McpState
    /\ \A signer \in Keys, e \in ExecutionTargets, status \in ExecutionStatus,
          outputs_hash \in HashUpdates :
          HasExecution(e) =>
              LET res == update_execution(McpState, signer, e, status, outputs_hash, now)
              IN /\ res.err = "Ok" => signer = executions[e].user
                 /\ signer # executions[e].user =>
                       /\ res.err # "Ok"
                       /\ TxOutcome(McpState, res) = McpState

\* no step rewrites a stored creator or user
C13_OwnerIsKept ==
    /\ \A t \in TemplateAddrs :
          HasTemplate(t) =>
              templates'[t] # NoAccount /\ templates'[t].creator = templates[t].creator
    /\ \A e \in ExecutionAddrs :
          HasExecution(e) =>
              executions'[e] # NoAccount /\ executions'[e].user = executions[e].user

\* C13: update_template succeeds only for the signer equal to the template's
\* stored creator and update_execution only for the signer equal to the
\* execution's stored user; a call by any other signer fails and changes
\* nothing; creator and user are never rewritten.
C13_OwnerGated == [](C13_OnlyOwnerUpdates) /\ [][C13_OwnerIsKept]_vars

\* a template deactivated by its creator and an execution completed by its user,
\* each refusing the other key
C13_Witness ==
    \E t \in TemplateTargets, e \in ExecutionTargets, other \in Keys :
        /\ HasTemplate(t) /\ HasExecution(e)
        /\ ~templates[t].is_active
        /\ executions[e].completed_at > executions[e].started_at
        /\ other # templates[t].creator
        /\ update_template(McpState, other, t, None, None, None, Some(TRUE), now).err
              = "ConstraintRaw"
        /\ \E f \in ExecutionTargets :
              /\ HasExecution(f)
              /\ executions[f].status = "InProgress"
              /\ \E k \in Keys :
                    /\ k # executions[f].user
                    /\ update_execution(McpState, k, f, "Success", None, now).err
                          = "ConstraintRaw"

----------------------------------------------------------------------------
(* Further properties of the token controller, checked under TokenSpec *)

\* signer k passes the authority check of the three privileged instructions on
\* the token state st
PassesAuthorityCheck(st, k) ==
    /\ \A is_frozen \in BOOLEAN :
          set_freeze_state(st, k, is_frozen).err # "UnauthorizedOperation"
    /\ \A new_authority \in Keys :
          transfer_authority(st, k, new_authority).err # "UnauthorizedOperation"
    /\ \A destination \in Keys, amount \in Amounts, cpi_accepted \in BOOLEAN :
          mint_tokens(st, k, destination, amount, cpi_accepted).err # "UnauthorizedMint"

FailsAuthorityCheck(st, k) ==
    /\ \A is_frozen \in BOOLEAN :
          set_freeze_state(st, k, is_frozen).err = "UnauthorizedOperation"
    /\ \A new_authority \in Keys :
          transfer_authority(st, k, new_authority).err = "UnauthorizedOperation"
    /\ \A destination \in Keys, amount \in Amounts, cpi_accepted \in BOOLEAN :
          mint_tokens(st, k, destination, amount, cpi_accepted).err = "UnauthorizedMint"

\* in every state the privileged instructions succeed for the current authority
\* and for no one else
C14_OnlyCurrentAuthority ==
    HasToken =>
        \A k \in Keys :
            /\ \A is_frozen \in BOOLEAN :
                  LET res == set_freeze_state(TokenState, k, is_frozen)
                  IN IF k = token_info.authority
                     THEN res.err = "Ok"
                     ELSE /\ res.err = "UnauthorizedOperation"
                          /\ TxOutcome(TokenState, res) = TokenState
            /\ \A new_authority \in Keys :
                  LET res == transfer_authority(TokenState, k, new_authority)
                  IN IF k = token_info.authority
                     THEN res.err = "Ok"
                     ELSE /\ res.err = "UnauthorizedOperation"
                          /\ TxOutcome(TokenState, res) = TokenState
            /\ IF k = token_info.authority
               THEN PassesAuthorityCheck(TokenState, k)
               ELSE FailsAuthorityCheck(TokenState, k)

\* what a step does to the authority
C14_HandOff ==
    HasToken =>
        IF last'.op = "transfer_authority" /\ last'.err = "Ok"
        THEN /\ last'.args.signer = token_info.authority
             /\ last'.event.event = "AuthorityTransferredEvent"
             /\ last'.event.old_authority = token_info.authority
             /\ last'.event.new_authority = last'.args.new_authority
             /\ token_info'.authority = last'.args.new_authority
             /\ LET post == [ti |-> token_info', bal |-> balances']
                IN last'.args.new_authority # token_info.authority =>
                      /\ FailsAuthorityCheck(post, token_info.authority)
                      /\ PassesAuthorityCheck(post, last'.args.new_authority)
        ELSE token_info'.authority = token_info.authority

----------------------------------------------------------------------------
(* Both programs side by side: the creating instructions and those that fill
   the records they create *)

CreationNext ==
    \/ InitializeToken
    \/ MintTokens
    \/ InitializeTemplate
    \/ RecordExecution

CreationSpec == McpInit /\ [][CreationNext]_vars

(* Properties of creation, checked under CreationSpec *)

\* inputs that pass every length check of the creating instructions
ValidTemplateInputs ==
    {in \in TemplateInputs :
        /\ in[1] <= MAX_TEMPLATE_ID_LEN /\ in[2] <= MAX_TEMPLATE_NAME_LEN
        /\ in[3] <= MAX_TEMPLATE_VERSION_LEN /\ in[4] <= MAX_CATEGORY_LEN
        /\ in[5] <= MAX_METADATA_LEN}
ValidExecutionInputs ==
    {in \in ExecutionInputs :
        in[1] <= MAX_TASK_ID_LEN /\ in[2] <= MAX_HASH_LEN /\ in[3] <= MAX_HASH_LEN}

\* a creation aimed at an occupied address is refused and changes nothing
C15_SecondCreationRefused ==
    /\ \A signer \in Keys, in \in TemplateInputs, creator \in Keys :
          HasTemplate(<<in[1], signer>>) =>
              LET res == initialize_template(McpState, signer, in[1], in[2], in[3],
                                             in[4], creator, in[5], now)
              IN /\ res.err = "AccountAlreadyInUse"
                 /\ TxOutcome(McpState, res) = McpState
    /\ \A user \in Keys, tmpl \in TemplateTargets, in \in ExecutionInputs,
          status \in ExecutionStatus :
          (HasExecution(<<in[1], user>>) /\ HasTemplate(tmpl)) =>
              LET res == record_execution(McpState, user, tmpl, in[1], in[2], in[3],
                                          status, now)
              IN /\ res.err = "AccountAlreadyInUse"
                 /\ TxOutcome(McpState, res) = McpState
    /\ \A authority \in Keys, name \in NameInputs, symbol \in SymbolInputs,
          uri \in UriInputs :
          HasToken =>
              LET res == initialize_token(TokenState, authority, name, symbol, uri,
                                          9, now)
              IN /\ res.err = "AccountAlreadyInUse"
                 /\ TxOutcome(TokenState, res) = TokenState

\* of two valid creations aimed at the same free address, run one after the
\* other, the first succeeds and the second is refused
C15_OneWinner ==
    /\ \A signer \in Keys, in \in ValidTemplateInputs, c1, c2 \in Keys :
          ~HasTemplate(<<in[1], signer>>) =>
              LET r1 == initialize_template(McpState, signer, in[1], in[2], in[3],
                                            in[4], c1, in[5], now)
                  s1 == TxOutcome(McpState, r1)
                  r2 == initialize_template(s1, signer, in[1], in[2], in[3], in[4],
                                            c2, in[5], now)
              IN /\ r1.err = "Ok"
                 /\ r2.err = "AccountAlreadyInUse"
                 /\ TxOutcome(s1, r2) = s1
    /\ \A user \in Keys, t1, t2 \in TemplateTargets, in \in ValidExecutionInputs,
          st1, st2 \in ExecutionStatus :
          (~HasExecution(<<in[1], user>>) /\ HasTemplate(t1) /\ HasTemplate(t2)) =>
              LET r1 == record_execution(McpState, user, t1, in[1], in[2], in[3],
                                         st1, now)
                  s1 == TxOutcome(McpState, r1)
                  r2 == record_execution(s1, user, t2, in[1], in[2], in[3], st2, now)
              IN /\ r1.err = "Ok"
                 /\ r2.err = "AccountAlreadyInUse"
                 /\ TxOutcome(s1, r2) = s1
    /\ \A a1, a2 \in Keys :
          ~HasToken =>
              LET r1 == initialize_token(TokenState, a1, MAX_NAME_LEN, MAX_SYMBOL_LEN,
                                         MAX_URI_LEN, 9, now)
                  s1 == TxOutcome(TokenState, r1)
                  r2 == initialize_token(s1, a2, MAX_NAME_LEN, MAX_SYMBOL_LEN,
                                         MAX_URI_LEN, 9, now)
              IN /\ r1.err = "Ok"
                 /\ r2.err = "AccountAlreadyInUse"
                 /\ TxOutcome(s1, r2) = s1

\* C15: a second initialize_template for the same (template_id, signer), a
\* second record_execution for the same (task_id, user) and a second
\* initialize_token for the same mint fail with the account-in-use error and
\* leave the existing record unchanged; of two creations aimed at the same free
\* address exactly one succeeds and the other gets that error.
C15_CreateFailsIfExists == C15_SecondCreationRefused /\ C15_OneWinner

\* a token with minted supply, a used template and a finished execution, each
\* refusing another creation at its address
C15_Witness ==
    \E t \in TemplateTargets, e \in ExecutionTargets, k \in Keys :
        /\ HasToken /\ HasTemplate(t) /\ HasExecution(e)
        /\ token_info.total_supply > 0
        /\ k # token_info.authority
        /\ templates[t].usage_count > 0
        /\ executions[e].status = "Success"
        /\ initialize_token(TokenState, k, MAX_NAME_LEN, MAX_SYMBOL_LEN, MAX_URI_LEN,
                            9, now).err = "AccountAlreadyInUse"
        /\ initialize_template(McpState, t[2], t[1], 1, 1, 1, t[2], 1, now).err
              = "AccountAlreadyInUse"
        /\ record_execution(McpState, e[2], t, e[1], 1, 1, "InProgress", now).err
              = "AccountAlreadyInUse"

\* the records with every rewritable field at its declared maximum
TemplateAtMaximum(t) ==
    [t EXCEPT !.template_name = MAX_TEMPLATE_NAME_LEN,
              !.template_version = MAX_TEMPLATE_VERSION_LEN,
              !.category = MAX_CATEGORY_LEN,
              !.metadata = MAX_METADATA_LEN]
ExecutionAtMaximum(x) ==
    [x EXCEPT !.inputs_hash = MAX_HASH_LEN, !.outputs_hash = MAX_HASH_LEN]
TokenInfoAtMaximum(ti) ==
    [ti EXCEPT !.name = MAX_NAME_LEN, !.symbol = MAX_SYMBOL_LEN, !.uri = MAX_URI_LEN]

\* C16 as stated: for every stored record, the capacity computed by its space
\* function equals the byte size of its encoded layout with template_id /
\* task_id at their actual length and every rewritable field at its maximum.
C16_AsStated ==
    /\ \A t \in TemplateAddrs :
          HasTemplate(t) =>
              TemplateAccount_space(templates[t].template_id)
                  = TemplateAccount_size(TemplateAtMaximum(templates[t]))
    /\ \A e \in ExecutionAddrs :
          HasExecution(e) =>
              ExecutionAccount_space(executions[e].task_id)
                  = ExecutionAccount_size(ExecutionAtMaximum(executions[e]))
    /\ HasToken => TokenInfo_space = TokenInfo_size(TokenInfoAtMaximum(token_info))

\* what the three space functions do compute: the encoded size for templates
\* and the token, three bytes more than it for executions
C16_SpaceAsComputed ==
    /\ \A t \in TemplateAddrs :
          HasTemplate(t) =>
              TemplateAccount_space(templates[t].template_id)
                  = TemplateAccount_size(TemplateAtMaximum(templates[t]))
    /\ \A e \in ExecutionAddrs :
          HasExecution(e) =>
              ExecutionAccount_space(executions[e].task_id)
                  = ExecutionAccount_size(ExecutionAtMaximum(executions[e])) + 3
    /\ HasToken => TokenInfo_space = TokenInfo_size(TokenInfoAtMaximum(token_info))

\* one record of each kind is stored
C16_Witness ==
    /\ HasToken
    /\ \E t \in TemplateAddrs : HasTemplate(t)
    /\ \E e \in ExecutionAddrs :
          /\ HasExecution(e)
          /\ executions[e].inputs_hash = MAX_HASH_LEN
          /\ executions[e].outputs_hash = MAX_HASH_LEN
          /\ ExecutionAccount_size(executions[e])
                < ExecutionAccount_space(executions[e].task_id)

(* Further properties of the registry, checked under McpSpec *)

\* an optional string or blob argument: absent, short, or at the maximum
UpdateValues(max) == {None, Some(1), Some(max)}

\* what a successful update_template call leaves behind
C17_UpdateWritesWhatIsGiven ==
    \A t \in TemplateTargets, signer \in Keys,
       name \in UpdateValues(MAX_TEMPLATE_NAME_LEN),
       version \in UpdateValues(MAX_TEMPLATE_VERSION_LEN),
       metadata \in UpdateValues(MAX_METADATA_LEN),
       is_active \in ActiveUpdates :
        HasTemplate(t) =>
            LET res == update_template(McpState, signer, t, name, version, metadata,
                                       is_active, now)
                out == TxOutcome(McpState, res)
                old == templates[t]
                new == out.templates[t]
            IN res.err = "Ok" =>
                  /\ new.template_name =
                        (IF name.some THEN name.val ELSE old.template_name)
                  /\ new.template_version =
                        (IF version.some THEN version.val ELSE old.template_version)
                  /\ new.metadata =
                        (IF metadata.some THEN metadata.val ELSE old.metadata)
                  /\ new.is_active =
                        (IF is_active.some THEN is_active.val ELSE old.is_active)
                  /\ new.updated_at = now
                  /\ new.template_id = old.template_id
                  /\ new.category = old.category
                  /\ new.creator = old.creator
                  /\ new.created_at = old.created_at
                  /\ new.usage_count = old.usage_count
                  /\ new.bump = old.bump
                  /\ \A u \in TemplateAddrs \ {t} : out.templates[u] = templates[u]
                  /\ out.executions = executions

\* what a step may do to a stored template
C17_TemplateFrame ==
    \A t \in TemplateAddrs :
        HasTemplate(t) =>
            /\ templates'[t] # NoAccount
            /\ templates'[t].template_id = templates[t].template_id
            /\ templates'[t].category = templates[t].category
            /\ templates'[t].creator = templates[t].creator
            /\ templates'[t].created_at = templates[t].created_at
            /\ templates'[t].bump = templates[t].bump
            /\ templates'[t].is_active # templates[t].is_active =>
                  /\ templates'[t].usage_count = templates[t].usage_count
                  /\ templates'[t].updated_at = now

\* C17: a successful update_template replaces exactly the optional fields that
\* were provided (template_name, template_version, metadata, is_active),
\* refreshes updated_at, and leaves every absent optional field and template_id,
\* category, creator, created_at, usage_count and the bump unchanged.
C17_UpdateTemplateFrame ==
    [](C17_UpdateWritesWhatIsGiven) /\ [][C17_TemplateFrame]_vars

\* a used template was deactivated by a later update_template, and a further
\* update giving only a new name and new metadata is accepted
C17_Witness ==
    \E t \in TemplateTargets :
        /\ HasTemplate(t)
        /\ ~templates[t].is_active
        /\ templates[t].usage_count > 0
        /\ templates[t].updated_at > templates[t].created_at
        /\ LET res == update_template(McpState, templates[t].creator, t, Some(1), None,
                                      Some(1), None, now)
           IN /\ res.err = "Ok"
              /\ res.post.templates[t].template_name # templates[t].template_name
              /\ res.post.templates[t].template_version = templates[t].template_version

(* Field lengths, checked under CreationSpec *)

\* lengths around a maximum
Around(max) == {max - 1, max, max + 1}

\* the variable-length fields of a stored record are within their maxima
TemplateWithinMaxima(t) ==
    /\ t.template_id <= MAX_TEMPLATE_ID_LEN
    /\ t.template_name <= MAX_TEMPLATE_NAME_LEN
    /\ t.template_version <= MAX_TEMPLATE_VERSION_LEN
    /\ t.category <= MAX_CATEGORY_LEN
    /\ t.metadata <= MAX_METADATA_LEN
ExecutionWithinMaxima(x) ==
    /\ x.task_id <= MAX_TASK_ID_LEN
    /\ x.inputs_hash <= MAX_HASH_LEN
    /\ x.outputs_hash <= MAX_HASH_LEN
TokenInfoWithinMaxima(ti) ==
    /\ ti.name <= MAX_NAME_LEN
    /\ ti.symbol <= MAX_SYMBOL_LEN
    /\ ti.uri <= MAX_URI_LEN

\* the call was turned down by an account check or a length check, not by the
\* record failing to fit its account when it is written back
RejectedAtValidation(res) == res.err \notin {"Ok", "AccountDidNotSerialize"}

\* the registry's records keep within their maxima and their capacity, and the
\* registry's instructions turn over-long arguments down
C18_RegistryWithinMaxima ==
    /\ \A t \in TemplateAddrs :
          HasTemplate(t) =>
              /\ TemplateWithinMaxima(templates[t])
              /\ TemplateAccount_size(templates[t])
                    <= TemplateAccount_space(templates[t].template_id)
    /\ \A e \in ExecutionAddrs :
          HasExecution(e) =>
              /\ ExecutionWithinMaxima(executions[e])
              /\ ExecutionAccount_size(executions[e])
                    <= ExecutionAccount_space(executions[e].task_id)
    /\ \A signer \in Keys, in \in TemplateInputs, creator \in Keys :
          in \notin ValidTemplateInputs =>
              RejectedAtValidation(
                  initialize_template(McpState, signer, in[1], in[2], in[3], in[4],
                                      creator, in[5], now))
    /\ \A user \in Keys, tmpl \in TemplateTargets, in \in ExecutionInputs,
          status \in ExecutionStatus :
          in \notin ValidExecutionInputs =>
              RejectedAtValidation(
                  record_execution(McpState, user, tmpl, in[1], in[2], in[3],
                                   status, now))
    /\ \A signer \in Keys, t \in TemplateTargets,
          name \in UpdateValues(MAX_TEMPLATE_NAME_LEN + 1),
          version \in UpdateValues(MAX_TEMPLATE_VERSION_LEN + 1),
          metadata \in UpdateValues(MAX_METADATA_LEN + 1) :
          \/ name = Some(MAX_TEMPLATE_NAME_LEN + 1)
          \/ version = Some(MAX_TEMPLATE_VERSION_LEN + 1)
          \/ metadata = Some(MAX_METADATA_LEN + 1)
          => RejectedAtValidation(
                 update_template(McpState, signer, t, name, version, metadata,
                                 None, now))
    /\ \A signer \in Keys, e \in ExecutionTargets, status \in ExecutionStatus :
          RejectedAtValidation(
              update_execution(McpState, signer, e, status, Some(MAX_HASH_LEN + 1),
                               now))

\* the same for the token record and initialize_token
C18_TokenWithinMaxima ==
    /\ HasToken =>
          /\ TokenInfoWithinMaxima(token_info)
          /\ TokenInfo_size(token_info) <= TokenInfo_space
    /\ \A authority \in Keys, name \in Around(MAX_NAME_LEN),
          symbol \in Around(MAX_SYMBOL_LEN), uri \in Around(MAX_URI_LEN) :
          LET res == initialize_token(TokenState, authority, name, symbol, uri, 9, now)
              out == TxOutcome(TokenState, res)
          IN /\ (name > MAX_NAME_LEN \/ symbol > MAX_SYMBOL_LEN \/ uri > MAX_URI_LEN)
                    => RejectedAtValidation(res)
             /\ out.ti # NoAccount => TokenInfoWithinMaxima(out.ti)

\* C18 as stated: every variable-length field of every stored record is within
\* its declared maximum, no record's encoded size exceeds its capacity, and
\* every creating or updating call that supplies an over-long field is rejected
\* at validation, not when the record is stored.
C18_AsStated == C18_RegistryWithinMaxima /\ C18_TokenWithinMaxima

\* what holds of the token record: its encoded size never exceeds its capacity,
\* and a call whose fields do not fit together is refused when it is stored
C18_TokenFitsItsSpace ==
    /\ HasToken => TokenInfo_size(token_info) <= TokenInfo_space
    /\ \A authority \in Keys, name \in Around(MAX_NAME_LEN),
          symbol \in Around(MAX_SYMBOL_LEN), uri \in Around(MAX_URI_LEN) :
          LET res == initialize_token(TokenState, authority, name, symbol, uri, 9, now)
              out == TxOutcome(TokenState, res)
          IN /\ out.ti # NoAccount => TokenInfo_size(out.ti) <= TokenInfo_space
             /\ (~HasToken /\ name + symbol + uri
                    > MAX_NAME_LEN + MAX_SYMBOL_LEN + MAX_URI_LEN)
                    => res.err = "AccountDidNotSerialize"
             /\ (~HasToken /\ name + symbol + uri
                    <= MAX_NAME_LEN + MAX_SYMBOL_LEN + MAX_URI_LEN)
                    => res.err = "Ok"

\* record_execution on a deactivated template
C19_InactiveStillRecords ==
    \A t \in TemplateTargets, user \in Keys, in \in ValidExecutionInputs,
       status \in ExecutionStatus :
        (HasTemplate(t) /\ ~templates[t].is_active /\ ~HasExecution(<<in[1], user>>)) =>
            LET res == record_execution(McpState, user, t, in[1], in[2], in[3],
                                        status, now)
                out == TxOutcome(McpState, res)
            IN /\ res.err = "Ok"
               /\ out.executions[<<in[1], user>>] # NoAccount
               /\ out.executions[<<in[1], user>>].template = t
               /\ out.templates[t].usage_count = templates[t].usage_count + 1
               /\ ~out.templates[t].is_active

\* a step that records an execution against a deactivated template
C19_InactiveStep ==
    \A t \in TemplateTargets :
        (HasTemplate(t) /\ ~templates[t].is_active /\ NewExecutionsOf(t) # {}) =>
            /\ templates'[t].usage_count = templates[t].usage_count + 1
            /\ ~templates'[t].is_active

\* C19: after update_template has set is_active to false, a record_execution
\* that refers to the template with otherwise valid inputs still succeeds,
\* creates the execution record and increments the template's usage_count by 1.
C19_DeactivationDoesNotBlock ==
    [](C19_InactiveStillRecords) /\ [][C19_InactiveStep]_vars

\* a deactivated template that has executions recorded against it and accepts
\* one more
C19_Witness ==
    \E t \in TemplateTargets, e \in ExecutionTargets, user \in Keys :
        /\ HasTemplate(t) /\ HasExecution(e)
        /\ ~templates[t].is_active
        /\ executions[e].template = t
        /\ templates[t].usage_count = 1
        /\ ~HasExecution(<<1, user>>)
        /\ record_execution(McpState, user, t, 1, MAX_HASH_LEN, MAX_HASH_LEN,
                            "InProgress", now).err = "Ok"

\* C20 as stated: the creator stored in every template is the signer of its
\* creation, whose key is the second component of the template's address; that
\* signer passes update_template's creator check and no other key does.
C20_AsStated ==
    \A t \in TemplateTargets :
        HasTemplate(t) =>
            /\ templates[t].creator = t[2]
            /\ \A k \in Keys :
                  update_template(McpState, k, t, None, None, None, None, now).err
                      = (IF k = t[2] THEN "Ok" ELSE "ConstraintRaw")

\* what initialize_template stores: the creator it is given as an argument
C20_CreatorIsTheArgument ==
    \A signer \in Keys, in \in ValidTemplateInputs, creator \in Keys :
        ~HasTemplate(<<in[1], signer>>) =>
            LET res == initialize_template(McpState, signer, in[1], in[2], in[3],
                                           in[4], creator, in[5], now)
            IN /\ res.err = "Ok"
               /\ res.post.templates[<<in[1], signer>>].creator = creator

\* a template whose stored creator is not the key that signed its creation: the
\* signer is refused by update_template and the other key is accepted
C20_Witness ==
    \E t \in TemplateTargets :
        /\ HasTemplate(t)
        /\ templates[t].creator # t[2]
        /\ update_template(McpState, t[2], t, None, None, None, Some(FALSE), now).err
              = "ConstraintRaw"
        /\ update_template(McpState, templates[t].creator, t, None, None, None,
                           Some(FALSE), now).err = "Ok"

\* the stored executions that refer to the template at address t
ExecutionsOf(t) ==
    {e \in ExecutionAddrs : HasExecution(e) /\ executions[e].template = t}

\* C21: in every reachable state, the usage_count of every template equals the
\* number of stored execution records whose template reference is that
\* template's address, and no execution refers to an address without a template.
C21_UsageCountsExecutions ==
    \A t \in TemplateAddrs :
        IF HasTemplate(t)
        THEN templates[t].usage_count = Cardinality(ExecutionsOf(t))
        ELSE ExecutionsOf(t) = {}

\* two templates with one execution each, recorded by different users
C21_Witness ==
    \E t, u \in TemplateTargets, e, f \in ExecutionTargets :
        /\ t # u /\ e # f
        /\ HasTemplate(t) /\ HasTemplate(u)
        /\ ExecutionsOf(t) = {e}
        /\ ExecutionsOf(u) = {f}
        /\ templates[t].usage_count = 1
        /\ templates[u].usage_count = 1

----------------------------------------------------------------------------
(* The supply counters against the external ledger, checked under TokenSpec *)

\* C22: after any sequence of token instructions, total_supply equals the sum
\* of the amounts of the mint_to calls the ledger committed for mint_tokens, and
\* circulating_supply equals that sum minus the sum of the amounts of the burn
\* calls the ledger committed for burn_tokens; before the token is initialized
\* the ledger has committed nothing for the controller.
C22_CountersTrackLedger ==
    IF HasToken
    THEN /\ token_info.total_supply = ledger_log.minted
         /\ token_info.circulating_supply = ledger_log.minted - ledger_log.burned
    ELSE ledger_log = NoCommits

\* the whole range has been minted, part of it burnt, and a further mint that
\* the ledger accepted was undone by the overflow of total_supply
C22_Witness ==
    /\ HasToken
    /\ ledger_log.minted = U64_MAX
    /\ ledger_log.burned > 0
    /\ last.op = "mint_tokens"
    /\ last.err = "NumericOverflow"
    /\ last.args.amount > 0

====
